---- MODULE Spec2Model ----
(***************************************************************************)
(* The chat front-end of sfagent: the submit handler azure_sf_chat of      *)
(* src/chat_ui.py (a generator that yields conversation snapshots), the    *)
(* EventHandler callbacks the streaming session invokes, and the Gradio    *)
(* wiring of src/main.py (chatbot value, clear button).                    *)
(*                                                                         *)
(* Text is a sequence of tokens, so that concatenation, prefixes and       *)
(* splitting are computed, not assumed.                                    *)
(*                                                                         *)
(* Spec is one browser session whose streams carry every kind of item and  *)
(* may fail. ResetSpec adds the clear button, SessionsSpec a second        *)
(* session, CancelSpec a consumer that stops taking snapshots, and         *)
(* GroundingSpec streams of web-search step deltas. ObservationSpec        *)
(* streams carry the items the reducer only observes or ignores, FetchSpec *)
(* the results the fetch functions return, and CitationSpec text deltas    *)
(* with url and file annotations.                                          *)
(***************************************************************************)
EXTENDS Integers, Sequences, FiniteSets, TLC

\* ---------------------------------------------------------------- bounds
\* Submissions per session.
MaxTurns == 2
\* Stream items delivered per session (over all its turns).
MaxEvents == 3
\* Last clock reading of a session.
MaxTime == 10
\* Clicks on the clear button.
MaxResets == 1

\* ------------------------------------------------------ program constants
\* The duplicate window of the submission gate, in seconds.
Window == 5

\* time.time() at start-up: the epoch clock is further than one window from
\* the initial stamp 0.
Epoch == Window

\* Seconds between two clock readings: inside the window, and the window
\* itself.
Delays == {0, Window}

\* The texts a user submits.
Texts == {"hi", "accounts?"}

\* ------------------------------------------------------------- messages
\* ChatMessage.metadata: absent keys are "".
NoMeta == [title |-> "", id |-> "", status |-> ""]

ChatMessage(role, content, metadata) ==
    [role |-> role, content |-> content, metadata |-> metadata]

convert_dict_to_chatmessage(msg) ==
    ChatMessage(msg.role, msg.content, msg.metadata)

ConvertHistory(h) ==
    [i \in 1..Len(h) |-> convert_dict_to_chatmessage(h[i])]

\* Python truthiness of msg.metadata.
HasMetadata(msg) == msg.metadata # NoMeta

\* ------------------------------------------------------- stream payloads
Annotation(type, text, title, url) ==
    [type |-> type, text |-> text, title |-> title, url |-> url]

\* One element of delta.content; has_text is whether the "text" key is there.
Chunk(has_text, value, annotations) ==
    [has_text |-> has_text, value |-> value, annotations |-> annotations]

\* A function tool call's output string: json_ok is whether json.loads
\* accepts it, the rest is the object it parses to.
Output(json_ok, has_error, error, has_total, totalSize) ==
    [json_ok |-> json_ok, has_error |-> has_error, error |-> error,
     has_total |-> has_total, totalSize |-> totalSize]

NoOutput == Output(FALSE, FALSE, "", FALSE, "")

ToolCall(id, type, requesturl, fn_name, output) ==
    [id |-> id, type |-> type, requesturl |-> requesturl,
     fn_name |-> fn_name, output |-> output]

\* A stream item (event_type, event_data) together with the object the
\* matching EventHandler callback receives.
Event(event_type, id, has_content, chunks, step_type, status, tool_calls) ==
    [event_type |-> event_type, id |-> id, has_content |-> has_content,
     chunks |-> chunks, step_type |-> step_type, status |-> status,
     tool_calls |-> tool_calls,
     role |-> IF event_type = "thread.message" THEN "assistant" ELSE "",
     last_error |-> IF event_type = "thread.run" /\ status = "failed"
                    THEN "rate_limit_exceeded" ELSE ""]

MessageDeltas ==
    { Event("thread.message.delta", "m1", TRUE,
            << Chunk(TRUE, <<"Hello">>, <<>>) >>, "", "", <<>>),
      Event("thread.message.delta", "m1", TRUE,
            << Chunk(TRUE, <<" world">>,
                     << Annotation("url_citation", "[1]", "Title", "http://u") >>),
               Chunk(TRUE, <<"!">>,
                     << Annotation("file_citation", "[2]", "", "") >>) >>,
            "", "", <<>>),
      Event("thread.message.delta", "m2", TRUE,
            << Chunk(TRUE, <<"Bye">>, <<>>) >>, "", "", <<>>),
      \* no delta/content in the payload
      Event("thread.message.delta", "m1", FALSE, <<>>, "", "", <<>>),
      \* a chunk without text
      Event("thread.message.delta", "m1", TRUE,
            << Chunk(TRUE, <<"Hel">>, <<>>), Chunk(FALSE, <<>>, <<>>) >>,
            "", "", <<>>) }

RunStepDeltas ==
    { Event("thread.run.step.delta", "s1", TRUE, <<>>, "tool_calls", "in_progress",
            << ToolCall("abc", "bing_grounding",
                        <<"https://api.bing/search", "?q=", "Microsoft+address">>,
                        "", NoOutput) >>) }

RunSteps ==
    { Event("run_step", "s2", TRUE, <<>>, "tool_calls", "completed",
            << ToolCall("f1", "function", <<>>, "fetch_accounts",
                        Output(FALSE, FALSE, "", FALSE, "")),
               ToolCall("f2", "function", <<>>, "fetch_contacts",
                        Output(TRUE, FALSE, "", TRUE, "2")) >>) }

ThreadMessages ==
    { Event("thread.message", "m1", TRUE, <<>>, "", "completed", <<>>) }

ThreadRuns ==
    { Event("thread.run", "r1", TRUE, <<>>, "", "failed", <<>>) }

\* ----------------------------------------------------------------- state
VARIABLES
    last_message,            \* closure variable of create_chat_interface
    last_message_timestamp,  \* closure variable of create_chat_interface
    now,                     \* the clock time.time() reads
    chatbot,                 \* value of the gr.Chatbot component
    pc,                      \* where the running azure_sf_chat generator is
    user_message,            \* argument of the current call
    history,                 \* argument of the current call
    conversation,            \* the generator's conversation list
    event_handler,           \* the EventHandler of the current stream
    thread_messages,         \* messages created on the remote thread
    stream_open,             \* whether a streaming session is open
    consumed,                \* stream items delivered in the current turn
    turn,                    \* submissions so far
    n_events,                \* stream items delivered so far
    exception,               \* what the except clause of the current call caught
    thread,                  \* the module-level thread of main.py (its id)
    message_thread,          \* thread_id of the last create_message, if any
    stream_thread,           \* thread_id of the last create_stream, if any
    input_box,               \* value of the gr.Textbox component
    sessions,                \* the browser sessions open on the app
    caller,                  \* the session of the current call
    parked                   \* chatbot values of the sessions other than caller

vars == << last_message, last_message_timestamp, now, chatbot, pc, user_message,
           history, conversation, event_handler, thread_messages, stream_open,
           consumed, turn, n_events, exception, thread, message_thread,
           stream_thread, input_box, sessions, caller, parked >>

\* EventHandler.__init__
NewEventHandler == [current_message_id |-> "None", accumulated_text |-> <<>>]

\* project_client.agents.create_thread() at start-up, and the thread that
\* create_chat_interface receives once and azure_sf_chat closes over.
FirstThread == 0

\* Every variable but the set of sessions.
InitApp ==
    /\ last_message = "None"
    /\ last_message_timestamp = 0
    /\ now = Epoch
    /\ chatbot = <<>>
    /\ pc = "idle"
    /\ user_message = "None"
    /\ history = <<>>
    /\ conversation = <<>>
    /\ event_handler = NewEventHandler
    /\ thread_messages = <<>>
    /\ stream_open = FALSE
    /\ consumed = <<>>
    /\ turn = 0
    /\ n_events = 0
    /\ exception = "None"
    /\ thread = FirstThread
    /\ message_thread = <<>>
    /\ stream_thread = <<>>
    /\ input_box = ""
    /\ caller = 1
    /\ parked = [s \in sessions |-> <<>>]

\* One browser session.
Init == sessions = {1} /\ InitApp

\* No generator of the handler is running.
Finished == {"idle", "suppressed", "done", "raised", "closed"}

\* ------------------------------------------------------ submission gate
\* A gate that compares the stamp and not the text.
Suppress_TimeOnly(last, stamp, text, t) == t - stamp < Window

\* The duplicate test of azure_sf_chat.
Suppress(last, stamp, text, t) == last = text /\ t - stamp < Window

\* The value of session s's chatbot component.
ChatbotOf(s) == IF s = caller THEN chatbot ELSE parked[s]

\* Session s types text into the input box and submits it: azure_sf_chat up
\* to its first yield, the gate, then the user message and the first
\* snapshot. The closure's last_message is never assigned. The suppressed
\* branch returns from the generator without a yield, so it sets no output.
\* The queue of main.py runs one call of the submit listener at a time.
Submit(s, text, d) ==
    /\ pc \in Finished
    /\ turn < MaxTurns
    /\ now + d <= MaxTime
    /\ now' = now + d
    /\ turn' = turn + 1
    /\ caller' = s
    /\ parked' = IF s = caller THEN parked
                 ELSE [parked EXCEPT ![caller] = chatbot, ![s] = <<>>]
    /\ user_message' = text
    /\ history' = ChatbotOf(s)
    /\ consumed' = <<>>
    /\ exception' = "None"
    /\ IF Suppress(last_message, last_message_timestamp, text, now')
       THEN /\ pc' = "suppressed"
            /\ conversation' = <<>>
            /\ chatbot' = ChatbotOf(s)
            /\ input_box' = text
            /\ UNCHANGED last_message_timestamp
       ELSE /\ last_message_timestamp' = now'
            /\ conversation' = Append(ConvertHistory(ChatbotOf(s)),
                                      ChatMessage("user", <<text>>, NoMeta))
            /\ chatbot' = conversation'
            /\ input_box' = ""
            /\ pc' = "yielded"
    /\ UNCHANGED << last_message, event_handler, thread_messages, stream_open,
                    n_events, thread, message_thread, stream_thread, sessions >>

\* project_client.agents.create_message
CreateMessage ==
    /\ pc = "yielded"
    /\ thread_messages' = Append(thread_messages,
                                 [role |-> "user", content |-> user_message])
    /\ message_thread' = <<FirstThread>>
    /\ pc' = "created"
    /\ UNCHANGED << last_message, last_message_timestamp, now, chatbot,
                    user_message, history, conversation, event_handler,
                    stream_open, consumed, turn, n_events, exception, thread,
                    stream_thread, input_box, sessions, caller, parked >>

\* A handler that opens the stream right after its first yield.
CreateStream_BeforeMessage ==
    /\ pc = "yielded"
    /\ event_handler' = NewEventHandler
    /\ stream_open' = TRUE
    /\ stream_thread' = <<FirstThread>>
    /\ pc' = "streaming"
    /\ UNCHANGED << last_message, last_message_timestamp, now, chatbot,
                    user_message, history, conversation, thread_messages,
                    consumed, turn, n_events, exception, thread, message_thread,
                    input_box, sessions, caller, parked >>

\* EventHandler(tracer) and project_client.agents.create_stream
CreateStream ==
    /\ pc = "created"
    /\ event_handler' = NewEventHandler
    /\ stream_open' = TRUE
    /\ stream_thread' = <<FirstThread>>
    /\ pc' = "streaming"
    /\ UNCHANGED << last_message, last_message_timestamp, now, chatbot,
                    user_message, history, conversation, thread_messages,
                    consumed, turn, n_events, exception, thread, message_thread,
                    input_box, sessions, caller, parked >>

\* ----------------------------------------------------------- text helpers
Last(s) == s[Len(s)]

\* The concatenation of a sequence of texts.
RECURSIVE Concat(_)
Concat(texts) ==
    IF texts = <<>> THEN <<>> ELSE Head(texts) \o Concat(Tail(texts))

\* sep.join(texts)
RECURSIVE Join(_, _)
Join(texts, sep) ==
    IF texts = <<>> THEN <<>>
    ELSE IF Len(texts) = 1 THEN Head(texts)
    ELSE Head(texts) \o <<sep>> \o Join(Tail(texts), sep)

\* url.split("?q=")[-1]: what follows the last marker, the whole url when
\* there is none.
SplitLast(url, marker) ==
    LET at == {i \in 1..Len(url) : url[i] = marker}
    IN IF at = {} THEN url
       ELSE LET m == CHOOSE i \in at : \A j \in at : j <= i
            IN SubSeq(url, m + 1, Len(url))

\* ---------------------------------------------------------- tool bubbles
tool_titles(tool_name) ==
    CASE tool_name = "fetch_accounts" -> "Fetching Salesforce Accounts"
      [] tool_name = "fetch_contacts" -> "Fetching Salesforce Contacts"
      [] tool_name = "bing_grounding" -> "Searching Web Sources"
      [] OTHER -> "Tool " \o tool_name

\* A bubble constructor that puts the bubble first.
create_tool_bubble_AtFront(conv, tool_name, content, call_id) ==
    IF tool_name = "None" THEN conv
    ELSE << ChatMessage("assistant", content,
                        [title |-> tool_titles(tool_name),
                         id |-> IF call_id # "None" THEN "tool-" \o call_id
                                ELSE "tool-noid",
                         status |-> ""]) >> \o conv

\* create_tool_bubble of azure_sf_chat: the conversation after the call.
create_tool_bubble(conv, tool_name, content, call_id) ==
    IF tool_name = "None" THEN conv
    ELSE Append(conv,
                ChatMessage("assistant", content,
                            [title |-> tool_titles(tool_name),
                             id |-> IF call_id # "None" THEN "tool-" \o call_id
                                    ELSE "tool-noid",
                             status |-> ""]))

\* ------------------------------------------------ EventHandler callbacks
\* Each callback gives the handler's fields, the conversation it shares with
\* the generator, and whether it raised.
Outcome(h, conv, raised) == [h |-> h, conversation |-> conv, raised |-> raised]

\* partial_text of on_message_delta: chunk.text.get("value", "") over the
\* chunks, in order.
RECURSIVE ChunkValues(_)
ChunkValues(chunks) ==
    IF chunks = <<>> THEN <<>> ELSE Head(chunks).value \o ChunkValues(Tail(chunks))

AllHaveText(chunks) == \A i \in 1..Len(chunks) : chunks[i].has_text

\* A callback that also writes the text it accumulates into the conversation.
on_message_delta_Applies(h, conv, delta) ==
    LET started == IF delta.id # h.current_message_id
                   THEN [current_message_id |-> delta.id, accumulated_text |-> <<>>]
                   ELSE h
    IN IF ~delta.has_content THEN Outcome(started, conv, FALSE)
       ELSE IF ~AllHaveText(delta.chunks) THEN Outcome(started, conv, TRUE)
       ELSE Outcome([started EXCEPT !.accumulated_text = @ \o ChunkValues(delta.chunks)],
                    Append(conv, ChatMessage("assistant", ChunkValues(delta.chunks), NoMeta)),
                    FALSE)

on_message_delta(h, conv, delta) ==
    LET started == IF delta.id # h.current_message_id
                   THEN [current_message_id |-> delta.id, accumulated_text |-> <<>>]
                   ELSE h
    IN IF ~delta.has_content THEN Outcome(started, conv, FALSE)
       ELSE IF ~AllHaveText(delta.chunks) THEN Outcome(started, conv, TRUE)
       ELSE Outcome([started EXCEPT !.accumulated_text = @ \o ChunkValues(delta.chunks)],
                    conv, FALSE)

on_thread_message(h, conv, message) ==
    IF message.status = "completed" /\ message.role = "assistant"
    THEN Outcome([current_message_id |-> "None", accumulated_text |-> <<>>], conv, FALSE)
    ELSE Outcome(h, conv, FALSE)

\* A callback that puts the error of a failed run into the conversation.
on_thread_run_Surfaces(h, conv, run) ==
    IF run.status = "failed"
    THEN Outcome(h, Append(conv, ChatMessage("assistant", <<run.last_error>>, NoMeta)),
                 FALSE)
    ELSE Outcome(h, conv, FALSE)

on_thread_run(h, conv, run) == Outcome(h, conv, FALSE)

\* A summary that reports the count whether or not the payload has an error.
FetchSummary_IgnoresError(what, output) ==
    <<"Found ", IF output.has_total THEN output.totalSize ELSE "0",
      " " \o what \o "(s).">>

\* The summary on_run_step derives from a parsed output.
FetchSummary(what, output) ==
    IF output.has_error
    THEN <<"Error fetching " \o what \o "s: ", output.error>>
    ELSE <<"Found ", IF output.has_total THEN output.totalSize ELSE "0",
           " " \o what \o "(s).">>

\* The loop of on_run_step over step.step_details.tool_calls.
RECURSIVE RunStepToolCalls(_, _)
RunStepToolCalls(conv, tool_calls) ==
    IF tool_calls = <<>> THEN conv
    ELSE LET tcall == Head(tool_calls)
             after ==
                 IF tcall.type # "function" THEN conv
                 ELSE IF ~tcall.output.json_ok THEN conv
                 ELSE IF tcall.fn_name = "fetch_accounts"
                 THEN create_tool_bubble(conv, tcall.fn_name,
                                         FetchSummary("account", tcall.output), tcall.id)
                 ELSE IF tcall.fn_name = "fetch_contacts"
                 THEN create_tool_bubble(conv, tcall.fn_name,
                                         FetchSummary("contact", tcall.output), tcall.id)
                 ELSE conv
         IN RunStepToolCalls(after, Tail(tool_calls))

\* A callback that lets the parse failure of an output escape.
on_run_step_Raises(h, conv, step) ==
    IF step.status = "completed" /\ step.tool_calls # <<>>
    THEN Outcome(h, RunStepToolCalls(conv, step.tool_calls),
                 \E i \in 1..Len(step.tool_calls) :
                     /\ step.tool_calls[i].type = "function"
                     /\ ~step.tool_calls[i].output.json_ok)
    ELSE Outcome(h, conv, FALSE)

on_run_step(h, conv, step) ==
    IF step.status = "completed" /\ step.tool_calls # <<>>
    THEN Outcome(h, RunStepToolCalls(conv, step.tool_calls), FALSE)
    ELSE Outcome(h, conv, FALSE)

on_run_step_delta(h, conv, delta) == Outcome(h, conv, FALSE)

\* The callback the streaming session invokes for an event.
Callback(h, conv, ev) ==
    CASE ev.event_type = "thread.message.delta" -> on_message_delta(h, conv, ev)
      [] ev.event_type = "thread.message" -> on_thread_message(h, conv, ev)
      [] ev.event_type = "thread.run" -> on_thread_run(h, conv, ev)
      [] ev.event_type = "run_step" -> on_run_step(h, conv, ev)
      [] ev.event_type = "thread.run.step.delta" -> on_run_step_delta(h, conv, ev)
      [] OTHER -> Outcome(h, conv, FALSE)

\* ------------------------------------------- the stream loop's branches
\* Each branch gives the conversation, whether it raised and whether it
\* yielded a snapshot.
Branch(conv, raised, yielded) ==
    [conversation |-> conv, raised |-> raised, yielded |-> yielded]

\* event_type == "thread.run.step.delta"
RECURSIVE StepDeltaToolCalls(_, _)
StepDeltaToolCalls(conv, tool_calls) ==
    IF tool_calls = <<>> THEN conv
    ELSE LET tcall == Head(tool_calls)
             search_query == SplitLast(tcall.requesturl, "?q=")
             after ==
                 IF tcall.type = "bing_grounding" /\ search_query # <<>>
                 THEN create_tool_bubble(conv, "bing_grounding",
                                         <<"Searching for '">> \o search_query \o <<"'...">>,
                                         tcall.id)
                 ELSE conv
         IN StepDeltaToolCalls(after, Tail(tool_calls))

\* A step-delta branch that yields whatever the kind of the step.
StepDeltaBranch_AlwaysYields(conv, ev) ==
    IF ev.step_type = "tool_calls"
    THEN Branch(StepDeltaToolCalls(conv, ev.tool_calls), FALSE, TRUE)
    ELSE Branch(conv, FALSE, TRUE)

StepDeltaBranch(conv, ev) ==
    IF ev.step_type = "tool_calls"
    THEN Branch(StepDeltaToolCalls(conv, ev.tool_calls), FALSE, TRUE)
    ELSE Branch(conv, FALSE, FALSE)

\* A run_step branch that marks every message with metadata done.
RunStepBranch_FlipsAll(conv, ev) ==
    IF ev.step_type = "tool_calls" /\ ev.status = "completed"
    THEN Branch([i \in 1..Len(conv) |->
                    IF HasMetadata(conv[i])
                    THEN [conv[i] EXCEPT !.metadata.status = "done"]
                    ELSE conv[i]],
                FALSE, TRUE)
    ELSE Branch(conv, FALSE, FALSE)

\* event_type == "run_step"
RunStepBranch(conv, ev) ==
    IF ev.step_type = "tool_calls" /\ ev.status = "completed"
    THEN Branch([i \in 1..Len(conv) |->
                    IF HasMetadata(conv[i]) /\ conv[i].metadata.status = "pending"
                    THEN [conv[i] EXCEPT !.metadata.status = "done"]
                    ELSE conv[i]],
                FALSE, TRUE)
    ELSE Branch(conv, FALSE, FALSE)

\* A citation text with the url in the place of the title.
CitationText_UrlFirst(annotation) ==
    <<annotation.text, " [", annotation.url, "](", annotation.title, ")">>

\* citation_text of one url_citation annotation.
CitationText(annotation) ==
    <<annotation.text, " [", annotation.title, "](", annotation.url, ")">>

\* The citations of the chunks, in order.
RECURSIVE AnnotationCitations(_)
AnnotationCitations(annotations) ==
    IF annotations = <<>> THEN <<>>
    ELSE (IF Head(annotations).type = "url_citation"
          THEN <<CitationText(Head(annotations))>> ELSE <<>>)
         \o AnnotationCitations(Tail(annotations))

RECURSIVE Citations(_)
Citations(chunks) ==
    IF chunks = <<>> THEN <<>>
    ELSE AnnotationCitations(Head(chunks).annotations) \o Citations(Tail(chunks))

\* content + citations_str of one delta.
DeltaText(ev) ==
    LET citations == Citations(ev.chunks)
    IN ChunkValues(ev.chunks)
       \o (IF citations # <<>> THEN <<"\n">> \o Join(citations, "\n") ELSE <<>>)

\* A delta branch that puts the new text before the text already there.
MessageDeltaBranch_Prepends(conv, ev) ==
    IF ~ev.has_content \/ ~AllHaveText(ev.chunks) THEN Branch(conv, TRUE, FALSE)
    ELSE IF conv = <<>> \/ Last(conv).role # "assistant" \/ HasMetadata(Last(conv))
    THEN Branch(Append(conv, ChatMessage("assistant", DeltaText(ev), NoMeta)),
                FALSE, TRUE)
    ELSE Branch([conv EXCEPT ![Len(conv)].content = DeltaText(ev) \o @], FALSE, TRUE)

\* A delta branch that appends to the last assistant message even when that
\* message is a bubble.
MessageDeltaBranch_IntoBubble(conv, ev) ==
    IF ~ev.has_content \/ ~AllHaveText(ev.chunks) THEN Branch(conv, TRUE, FALSE)
    ELSE IF conv = <<>> \/ Last(conv).role # "assistant"
    THEN Branch(Append(conv, ChatMessage("assistant", DeltaText(ev), NoMeta)),
                FALSE, TRUE)
    ELSE Branch([conv EXCEPT ![Len(conv)].content = @ \o DeltaText(ev)], FALSE, TRUE)

\* event_type == "thread.message.delta"
MessageDeltaBranch(conv, ev) ==
    IF ~ev.has_content \/ ~AllHaveText(ev.chunks) THEN Branch(conv, TRUE, FALSE)
    ELSE IF conv = <<>> \/ Last(conv).role # "assistant" \/ HasMetadata(Last(conv))
    THEN Branch(Append(conv, ChatMessage("assistant", DeltaText(ev), NoMeta)),
                FALSE, TRUE)
    ELSE Branch([conv EXCEPT ![Len(conv)].content = @ \o DeltaText(ev)], FALSE, TRUE)

\* The body of "for item in stream" for one item.
LoopBody(conv, ev) ==
    CASE ev.event_type = "thread.run.step.delta" -> StepDeltaBranch(conv, ev)
      [] ev.event_type = "run_step" -> RunStepBranch(conv, ev)
      [] ev.event_type = "thread.message.delta" -> MessageDeltaBranch(conv, ev)
      [] OTHER -> Branch(conv, FALSE, FALSE)

\* An except clause that ends the call as if the stream had ended.
ExceptClause_Swallows(ex) == "done"

\* "except Exception as ex: ... raise": where the call ends after ex.
ExceptClause(ex) == "raised"

\* One event of the stream: the session invokes the callback, then hands the
\* item to the loop, which runs to its next yield or to the next item. An
\* exception of either leaves the with block and reaches the except clause.
Deliver(ev) ==
    /\ pc = "streaming"
    /\ n_events < MaxEvents
    /\ LET cb == Callback(event_handler, conversation, ev)
           body == IF cb.raised THEN Branch(cb.conversation, TRUE, FALSE)
                   ELSE LoopBody(cb.conversation, ev)
       IN /\ event_handler' = cb.h
          /\ conversation' = body.conversation
          /\ chatbot' = IF body.yielded THEN body.conversation ELSE chatbot
          /\ input_box' = IF body.yielded THEN "" ELSE input_box
          /\ exception' = IF cb.raised THEN "AttributeError"
                          ELSE IF body.raised THEN "KeyError"
                          ELSE exception
          /\ pc' = IF body.raised THEN ExceptClause(exception') ELSE "streaming"
          /\ stream_open' = ~body.raised
    /\ consumed' = Append(consumed, ev)
    /\ n_events' = n_events + 1
    /\ UNCHANGED << last_message, last_message_timestamp, now, user_message,
                    history, thread_messages, turn, thread, message_thread,
                    stream_thread, sessions, caller, parked >>

MessageDelta ==
    \E ev \in MessageDeltas :
        /\ ev.event_type = "thread.message.delta"
        /\ Deliver(ev)

RunStepDelta ==
    \E ev \in RunStepDeltas :
        /\ ev.event_type = "thread.run.step.delta"
        /\ Deliver(ev)

RunStep ==
    \E ev \in RunSteps :
        /\ ev.event_type = "run_step"
        /\ Deliver(ev)

ThreadMessage ==
    \E ev \in ThreadMessages :
        /\ ev.event_type = "thread.message"
        /\ Deliver(ev)

ThreadRun ==
    \E ev \in ThreadRuns :
        /\ ev.event_type = "thread.run"
        /\ Deliver(ev)

\* The stream is exhausted: the with block and the generator end.
StreamEnd ==
    /\ pc = "streaming"
    /\ stream_open' = FALSE
    /\ pc' = "done"
    /\ UNCHANGED << last_message, last_message_timestamp, now, chatbot,
                    user_message, history, conversation, event_handler,
                    thread_messages, consumed, turn, n_events, exception, thread,
                    message_thread, stream_thread, input_box, sessions, caller,
                    parked >>

\* "for item in stream" raises instead of giving an item (the connection
\* fails): the with block releases the stream, the except clause runs.
StreamError ==
    /\ pc = "streaming"
    /\ exception' = "StreamError"
    /\ pc' = ExceptClause(exception')
    /\ stream_open' = FALSE
    /\ UNCHANGED << last_message, last_message_timestamp, now, chatbot,
                    user_message, history, conversation, event_handler,
                    thread_messages, consumed, turn, n_events, thread,
                    message_thread, stream_thread, input_box, sessions, caller,
                    parked >>

\* clear_history of main.py, clicked in session s: the module-level thread is
\* rebound to a new thread and that session's chatbot is emptied.
ClearHistory ==
    \E s \in sessions :
        /\ thread < FirstThread + MaxResets
        /\ thread' = thread + 1
        /\ IF s = caller
           THEN chatbot' = <<>> /\ UNCHANGED parked
           ELSE parked' = [parked EXCEPT ![s] = <<>>] /\ UNCHANGED chatbot
        /\ UNCHANGED << last_message, last_message_timestamp, now, pc,
                        user_message, history, conversation, event_handler,
                        thread_messages, stream_open, consumed, turn, n_events,
                        exception, message_thread, stream_thread, input_box,
                        sessions, caller >>

Next ==
    \/ \E s \in sessions, text \in Texts, d \in Delays : Submit(s, text, d)
    \/ CreateMessage
    \/ CreateStream
    \/ MessageDelta
    \/ RunStepDelta
    \/ RunStep
    \/ ThreadMessage
    \/ ThreadRun
    \/ StreamEnd
    \/ StreamError

Spec == Init /\ [][Next]_vars

\* ---------------------------------------------------- the clear button
\* The session with its clear button.
ResetNext == Next \/ ClearHistory

ResetSpec == Init /\ [][ResetNext]_vars

\* ------------------------------------------------- web search grounding
\* Step deltas of bing_grounding calls: the request url with one "?q=", and
\* one whose query text holds the marker again.
GroundingDeltas ==
    RunStepDeltas \cup
    { Event("thread.run.step.delta", "s3", TRUE, <<>>, "tool_calls", "in_progress",
            << ToolCall("xyz", "bing_grounding",
                        <<"https://api.bing/search", "?q=", "what+is", "?q=", "in+a+url">>,
                        "", NoOutput) >>) }

GroundingDelta ==
    \E ev \in GroundingDeltas :
        /\ ev.event_type = "thread.run.step.delta"
        /\ Deliver(ev)

\* Turns whose streams hold only web-search step deltas.
GroundingNext ==
    \/ \E s \in sessions, text \in Texts, d \in Delays : Submit(s, text, d)
    \/ CreateMessage
    \/ CreateStream
    \/ GroundingDelta
    \/ StreamEnd

GroundingSpec == Init /\ [][GroundingNext]_vars

\* ------------------------------------------- the consumer stops iterating
\* The generator is suspended at a yield: the first one, or the one of the
\* branch that handled the last item.
AtYield ==
    \/ pc = "yielded"
    \/ /\ pc = "streaming"
       /\ consumed # <<>>
       /\ LoopBody(<<>>, Last(consumed)).yielded

\* The consumer takes no further snapshot and drops the generator.
ConsumerStops ==
    /\ AtYield
    /\ pc' = "abandoned"
    /\ UNCHANGED << last_message, last_message_timestamp, now, chatbot,
                    user_message, history, conversation, event_handler,
                    thread_messages, stream_open, consumed, turn, n_events,
                    exception, thread, message_thread, stream_thread, input_box,
                    sessions, caller, parked >>

\* A finalisation that leaves the with block without releasing the stream.
GeneratorClose_Leaks ==
    /\ pc = "abandoned"
    /\ pc' = "closed"
    /\ UNCHANGED << last_message, last_message_timestamp, now, chatbot,
                    user_message, history, conversation, event_handler,
                    thread_messages, stream_open, consumed, turn, n_events,
                    exception, thread, message_thread, stream_thread, input_box,
                    sessions, caller, parked >>

\* Python finalises the dropped generator: GeneratorExit is thrown at the
\* yield, "except Exception" does not catch it, and the with block, when the
\* yield is inside it, releases the stream on the way out.
GeneratorClose ==
    /\ pc = "abandoned"
    /\ stream_open' = FALSE
    /\ pc' = "closed"
    /\ UNCHANGED << last_message, last_message_timestamp, now, chatbot,
                    user_message, history, conversation, event_handler,
                    thread_messages, consumed, turn, n_events, exception, thread,
                    message_thread, stream_thread, input_box, sessions, caller,
                    parked >>

\* Turns of text deltas whose consumer may stop at any snapshot.
CancelNext ==
    \/ \E s \in sessions, text \in Texts, d \in Delays : Submit(s, text, d)
    \/ CreateMessage
    \/ CreateStream
    \/ MessageDelta
    \/ StreamEnd
    \/ ConsumerStops
    \/ GeneratorClose

\* A dropped generator is finalised: CPython closes it when its last
\* reference goes.
CancelSpec == Init /\ [][CancelNext]_vars /\ WF_vars(GeneratorClose)

\* ------------------------------------------------------------ two sessions
\* Two browser sessions on the one salesforce_chat of main.py.
SessionsInit == sessions = {1, 2} /\ InitApp

\* Turns of text deltas, submitted from either session.
SessionsNext ==
    \/ \E s \in sessions, text \in Texts, d \in Delays : Submit(s, text, d)
    \/ CreateMessage
    \/ CreateStream
    \/ MessageDelta
    \/ StreamEnd

SessionsSpec == SessionsInit /\ [][SessionsNext]_vars

\* ------------------------------------------------ status observations
\* Items the stream loop has nothing to do for: a tool_calls step still in
\* progress, a completed step of another kind, a step delta of another
\* kind, and an event type no branch and no callback knows.
OtherItems ==
    { Event("run_step", "s4", TRUE, <<>>, "tool_calls", "in_progress",
            << ToolCall("f3", "function", <<>>, "fetch_accounts", NoOutput) >>),
      Event("run_step", "s5", TRUE, <<>>, "message_creation", "completed", <<>>),
      Event("thread.run.step.delta", "s6", TRUE, <<>>, "message_creation",
            "in_progress", <<>>),
      Event("done", "", FALSE, <<>>, "", "", <<>>) }

OtherItem ==
    \E ev \in OtherItems :
        /\ ev.event_type \in {"run_step", "thread.run.step.delta", "done"}
        /\ Deliver(ev)

\* Turns whose streams hold steps, step deltas, run status events and items
\* of the kinds above.
ObservationNext ==
    \/ \E s \in sessions, text \in Texts, d \in Delays : Submit(s, text, d)
    \/ CreateMessage
    \/ CreateStream
    \/ RunStepDelta
    \/ RunStep
    \/ ThreadRun
    \/ OtherItem
    \/ StreamEnd

ObservationSpec == Init /\ [][ObservationNext]_vars

\* ------------------------------------------------ custom-function calls
\* Completed steps with the outputs sf_functions.py gives: an error object,
\* records with their totalSize, and an object without totalSize.
FetchSteps ==
    RunSteps \cup
    { Event("run_step", "s7", TRUE, <<>>, "tool_calls", "completed",
            << ToolCall("f4", "function", <<>>, "fetch_accounts",
                        Output(TRUE, TRUE, "INVALID_SESSION_ID", FALSE, "")),
               ToolCall("f5", "function", <<>>, "fetch_contacts",
                        Output(TRUE, FALSE, "", FALSE, "")) >>),
      Event("run_step", "s8", TRUE, <<>>, "tool_calls", "completed",
            << ToolCall("f6", "function", <<>>, "fetch_accounts",
                        Output(TRUE, FALSE, "", TRUE, "3")),
               ToolCall("f7", "function", <<>>, "fetch_contacts",
                        Output(TRUE, TRUE, "Salesforce connection failed", TRUE, "0")) >>) }

FetchStep ==
    \E ev \in FetchSteps :
        /\ ev.event_type = "run_step"
        /\ Deliver(ev)

\* Turns whose streams hold completed steps of fetch calls.
FetchNext ==
    \/ \E s \in sessions, text \in Texts, d \in Delays : Submit(s, text, d)
    \/ CreateMessage
    \/ CreateStream
    \/ FetchStep
    \/ StreamEnd

FetchSpec == Init /\ [][FetchNext]_vars

\* ------------------------------------------------------------- citations
\* Text deltas with annotations: two url citations around a file citation
\* in one chunk, url citations in two chunks, a file citation alone, none.
CitationDeltas ==
    { Event("thread.message.delta", "m1", TRUE,
            << Chunk(TRUE, <<"See">>,
                     << Annotation("url_citation", "[1]", "A", "http://a"),
                        Annotation("file_citation", "[2]", "F", "file-1"),
                        Annotation("url_citation", "[3]", "B", "http://b") >>) >>,
            "", "", <<>>),
      Event("thread.message.delta", "m1", TRUE,
            << Chunk(TRUE, <<" one">>,
                     << Annotation("url_citation", "[4]", "C", "http://c") >>),
               Chunk(TRUE, <<" two">>,
                     << Annotation("url_citation", "[5]", "D", "http://d") >>) >>,
            "", "", <<>>),
      Event("thread.message.delta", "m1", TRUE,
            << Chunk(TRUE, <<" file">>,
                     << Annotation("file_citation", "[6]", "G", "file-2") >>) >>,
            "", "", <<>>),
      Event("thread.message.delta", "m1", TRUE,
            << Chunk(TRUE, <<" end">>, <<>>) >>, "", "", <<>>) }

CitationDelta ==
    \E ev \in CitationDeltas :
        /\ ev.event_type = "thread.message.delta"
        /\ Deliver(ev)

\* Turns whose streams hold text deltas with annotations.
CitationNext ==
    \/ \E s \in sessions, text \in Texts, d \in Delays : Submit(s, text, d)
    \/ CreateMessage
    \/ CreateStream
    \/ CitationDelta
    \/ StreamEnd

CitationSpec == Init /\ [][CitationNext]_vars

\* ===================================================== submission gate
\* A step that is a call of the submit handler.
IsSubmit == turn' = turn + 1

\* C1: a second call with the text of the previous, allowed, call, made less
\* than Window seconds after that call was allowed, is suppressed: it appends
\* no user message, leaves the conversation shown as it was, and neither
\* creates a thread message nor opens a stream.
C1_DuplicateSuppressed ==
    [][(/\ IsSubmit
        /\ turn >= 1
        /\ pc # "suppressed"
        /\ user_message' = user_message
        /\ now' - last_message_timestamp < Window)
       => (/\ pc' = "suppressed"
           /\ chatbot' = chatbot
           /\ thread_messages' = thread_messages
           /\ ~stream_open')]_vars

\* C2: a call whose text differs from that of the last allowed call, or that
\* comes Window seconds or more after it, is not suppressed: the user message
\* is appended to the prior history and shown, then the thread message is
\* created with that text and the stream is opened.
C2_DistinctOrLateProceeds ==
    /\ [][(/\ IsSubmit
           /\ \/ turn = 0
              \/ user_message' # user_message
              \/ now' - last_message_timestamp >= Window)
          => (/\ pc' = "yielded"
              /\ conversation' = Append(chatbot, ChatMessage("user", <<user_message'>>, NoMeta))
              /\ chatbot' = conversation')]_vars
    /\ [](/\ pc = "yielded" => ENABLED CreateMessage
          /\ pc = "created" =>
                 /\ ENABLED CreateStream
                 /\ thread_messages # <<>>
                 /\ Last(thread_messages) = [role |-> "user", content |-> user_message]
          /\ pc = "streaming" => stream_open /\ Len(thread_messages) = turn)

\* A second call with another text at the very clock reading of the first has
\* its user message after the first one's and its stream open.
C2_Witness ==
    /\ turn = 2
    /\ now = Epoch
    /\ pc = "streaming"
    /\ stream_open
    /\ Len(history) >= 1
    /\ history[1].content # <<user_message>>
    /\ Last(conversation) = ChatMessage("user", <<user_message>>, NoMeta)
    /\ Len(thread_messages) = 2

\* ========================================================= text deltas
\* A step that delivers one stream item, and that item.
IsDelivery == Len(consumed') = Len(consumed) + 1

Delivered == Last(consumed')

\* A thread.message.delta item with all the fields the loop reads.
IsTextDelta(ev) ==
    ev.event_type = "thread.message.delta" /\ ev.has_content /\ AllHaveText(ev.chunks)

IsMessageCompleted(ev) == ev.event_type = "thread.message" /\ ev.status = "completed"

\* Text deltas of one message id, with message-completed at the end or not.
OneMessageStream(stream) ==
    /\ stream # <<>>
    /\ IsTextDelta(stream[1])
    /\ \A i \in 1..Len(stream) :
          \/ IsTextDelta(stream[i]) /\ stream[i].id = stream[1].id
          \/ i = Len(stream) /\ i > 1 /\ IsMessageCompleted(stream[i])

\* A delta's text followed by its citation block.
Fragment(ev) ==
    ChunkValues(ev.chunks)
    \o (IF Citations(ev.chunks) = <<>> THEN <<>>
        ELSE <<"\n">> \o Join(Citations(ev.chunks), "\n"))

\* The fragments of a stream's text deltas, in arrival order.
RECURSIVE Fragments(_)
Fragments(stream) ==
    IF stream = <<>> THEN <<>>
    ELSE (IF IsTextDelta(Head(stream)) THEN Fragment(Head(stream)) ELSE <<>>)
         \o Fragments(Tail(stream))

\* C3: when the stream was text deltas of one message id (message-completed
\* after them or not), the final conversation is the prior history, the user
\* message, and one assistant message holding the fragments in arrival order.
C3_OneMessageConcatenation ==
    (pc = "done" /\ OneMessageStream(consumed))
    => conversation = history
                      \o << ChatMessage("user", <<user_message>>, NoMeta),
                            ChatMessage("assistant", Fragments(consumed), NoMeta) >>

\* Two different deltas of one id, the second with a citation, then
\* message-completed, on top of a first turn's history.
C3_Witness ==
    /\ pc = "done"
    /\ Len(history) >= 1
    /\ OneMessageStream(consumed)
    /\ Len(consumed) = 3
    /\ consumed[1] # consumed[2]
    /\ Citations(consumed[2].chunks) # <<>>
    /\ IsMessageCompleted(consumed[3])

\* C4: a text delta whose message id differs from the id being accumulated,
\* arriving while that id's assistant message is the open last message, adds
\* a new assistant message and leaves the earlier one as it was.
C4_DifferentIdsNotMerged ==
    [][(/\ IsDelivery
        /\ IsTextDelta(Delivered)
        /\ event_handler.current_message_id \notin {"None", Delivered.id}
        /\ conversation # <<>>
        /\ Last(conversation).role = "assistant"
        /\ ~HasMetadata(Last(conversation)))
       => (/\ Len(conversation') = Len(conversation) + 1
           /\ SubSeq(conversation', 1, Len(conversation)) = conversation
           /\ Last(conversation').content = Fragment(Delivered))]_vars

\* ======================================================== tool bubbles
IsBubble(msg) == msg.metadata.id # ""

\* C5: no two messages of a conversation carry the same bubble id.
C5_OneBubblePerCallId ==
    \A i, j \in 1..Len(conversation) :
        (i < j /\ IsBubble(conversation[i]))
        => conversation[i].metadata.id # conversation[j].metadata.id

\* The messages appended after the user message of the current turn.
TurnMessages == SubSeq(conversation, Len(history) + 2, Len(conversation))

IsToolStepCompleted(ev) ==
    ev.event_type = "run_step" /\ ev.step_type = "tool_calls" /\ ev.status = "completed"

\* C6: a bubble created in the turn is pending from its creation, and done
\* once a completed tool_calls step has arrived after it.
C6_BubbleStatusLifecycle ==
    pc \in {"streaming", "done"}
    => \A i \in 1..Len(TurnMessages) :
          IsBubble(TurnMessages[i])
          => /\ TurnMessages[i].metadata.status \in {"pending", "done"}
             /\ (\A k \in 1..Len(consumed) : ~IsToolStepCompleted(consumed[k]))
                => TurnMessages[i].metadata.status = "pending"
             /\ (consumed # <<>> /\ IsToolStepCompleted(Last(consumed)))
                => TurnMessages[i].metadata.status = "done"

\* ======================================================= error handling
\* A thread.message.delta item that lacks a field the loop reads.
IsMalformed(ev) == ev.event_type = "thread.message.delta" /\ ~IsTextDelta(ev)

\* C7: after a malformed item no exception has left the handler: the stream
\* is still being read, or has ended normally.
C7_MalformedEventContained ==
    (consumed # <<>> /\ IsMalformed(Last(consumed))) => pc \in {"streaming", "done"}

\* The bubbles among msgs that carry call id.
BubblesOf(msgs, id) == {i \in 1..Len(msgs) : msgs[i].metadata.id = "tool-" \o id}

IsUnparseable(tcall) == tcall.type = "function" /\ ~tcall.output.json_ok

IsParseableFetch(tcall) ==
    /\ tcall.type = "function"
    /\ tcall.output.json_ok
    /\ tcall.fn_name \in {"fetch_accounts", "fetch_contacts"}

\* C8: a completed step with a function call whose output is not JSON raises
\* nothing and the stream goes on; the messages it adds hold no bubble for
\* that call and one bubble for each other fetch call of the step, and the
\* text of the messages before is untouched.
C8_UnparseableOutputSkipped ==
    [][(/\ IsDelivery
        /\ Delivered.event_type = "run_step"
        /\ Delivered.status = "completed"
        /\ \E k \in 1..Len(Delivered.tool_calls) : IsUnparseable(Delivered.tool_calls[k]))
       => (/\ pc' = "streaming"
           /\ stream_open'
           /\ Len(conversation') >= Len(conversation)
           /\ \A i \in 1..Len(conversation) :
                 /\ conversation'[i].role = conversation[i].role
                 /\ conversation'[i].content = conversation[i].content
           /\ LET added == SubSeq(conversation', Len(conversation) + 1, Len(conversation'))
              IN \A k \in 1..Len(Delivered.tool_calls) :
                    LET tcall == Delivered.tool_calls[k]
                    IN /\ IsUnparseable(tcall) => BubblesOf(added, tcall.id) = {}
                       /\ IsParseableFetch(tcall)
                          => Cardinality(BubblesOf(added, tcall.id)) = 1)]_vars

\* After a step whose first call's output did not parse, the second call has
\* its bubble and a later text delta has been reduced.
C8_Witness ==
    /\ pc = "streaming"
    /\ Len(consumed) = 2
    /\ consumed[1].event_type = "run_step"
    /\ IsUnparseable(consumed[1].tool_calls[1])
    /\ IsParseableFetch(consumed[1].tool_calls[2])
    /\ IsTextDelta(consumed[2])
    /\ BubblesOf(TurnMessages, consumed[1].tool_calls[1].id) = {}
    /\ BubblesOf(TurnMessages, consumed[1].tool_calls[2].id) = {1}
    /\ TurnMessages[2] = ChatMessage("assistant", Fragment(consumed[2]), NoMeta)

\* =========================================================== transcript
IsPrefix(s, t) == Len(s) <= Len(t) /\ SubSeq(t, 1, Len(s)) = s

\* later extends earlier: every message is still there, in its place; one
\* that is not the last of later has its content unchanged, the last one has
\* at most grown by a suffix.
AppendOnly(earlier, later) ==
    /\ Len(later) >= Len(earlier)
    /\ \A i \in 1..Len(earlier) :
          /\ later[i].role = earlier[i].role
          /\ later[i].metadata.id = earlier[i].metadata.id
          /\ later[i].metadata.title = earlier[i].metadata.title
          /\ IsPrefix(earlier[i].content, later[i].content)
          /\ i < Len(later) => later[i].content = earlier[i].content

InTurn == pc \in {"yielded", "created", "streaming"}

\* C9: within a turn the conversation every snapshot is taken of only extends
\* (AppendOnly), and the prior history followed by the user message stays
\* its unchanged beginning; a snapshot shown is the conversation as it is
\* or as it was.
C9_AppendOnlyWithinTurn ==
    /\ [][InTurn => /\ AppendOnly(conversation, conversation')
                    /\ chatbot' \in {chatbot, conversation', <<>>}]_vars
    /\ [](pc \in {"yielded", "created", "streaming", "done", "raised"}
          => LET start == history \o << ChatMessage("user", <<user_message>>, NoMeta) >>
             IN /\ IsPrefix(start, conversation)
                /\ chatbot # <<>> /\ InTurn => AppendOnly(chatbot, conversation))

\* A bubble, then an assistant message grown by two deltas.
C9_Witness ==
    /\ pc = "streaming"
    /\ Len(consumed) = 3
    /\ Len(TurnMessages) = 2
    /\ IsBubble(TurnMessages[1])
    /\ IsTextDelta(consumed[2])
    /\ IsTextDelta(consumed[3])
    /\ TurnMessages[2].content = Fragment(consumed[2]) \o Fragment(consumed[3])
    /\ chatbot = conversation

\* ==================================================== the two channels
\* All the text of a conversation, top to bottom.
AllContent(conv) == Concat([i \in 1..Len(conv) |-> conv[i].content])

\* C10: a text delta that reaches the callback and the stream loop adds its
\* text to the conversation once: the conversation's text grows by exactly
\* that delta's fragment, while the callback keeps its own accumulation.
C10_DeltaAppliedOnce ==
    [][(IsDelivery /\ IsTextDelta(Delivered))
       => (/\ event_handler'.current_message_id = Delivered.id
           /\ IsPrefix(ChunkValues(Delivered.chunks),
                       SubSeq(event_handler'.accumulated_text,
                              Len(event_handler'.accumulated_text)
                                  - Len(ChunkValues(Delivered.chunks)) + 1,
                              Len(event_handler'.accumulated_text)))
           /\ AllContent(conversation') = AllContent(conversation) \o Fragment(Delivered))]_vars

\* The callback has accumulated the texts of two deltas of one id, and the
\* conversation's last message holds each fragment once.
C10_Witness ==
    /\ pc = "streaming"
    /\ Len(consumed) = 2
    /\ IsTextDelta(consumed[1])
    /\ IsTextDelta(consumed[2])
    /\ consumed[1].id = consumed[2].id
    /\ event_handler.accumulated_text
           = ChunkValues(consumed[1].chunks) \o ChunkValues(consumed[2].chunks)
    /\ Last(conversation).content = Fragment(consumed[1]) \o Fragment(consumed[2])

\* ================================================= web search grounding
\* What follows the first occurrence of the marker in a url that holds it.
SplitFirst(url, marker) ==
    LET at == {i \in 1..Len(url) : url[i] = marker}
        m == CHOOSE i \in at : \A j \in at : i <= j
    IN SubSeq(url, m + 1, Len(url))

\* C11: a step delta with a bing_grounding call adds a bubble for that call
\* whose content is "Searching for '<query>'...", <query> being what follows
\* the first "?q=" of the request url, however often the url holds the marker.
C11_QueryAfterFirstMarker ==
    [][(/\ IsDelivery
        /\ Delivered.event_type = "thread.run.step.delta"
        /\ Delivered.step_type = "tool_calls")
       => \A k \in 1..Len(Delivered.tool_calls) :
              LET tcall == Delivered.tool_calls[k]
              IN tcall.type = "bing_grounding"
                 => \E i \in (Len(conversation) + 1)..Len(conversation') :
                        /\ conversation'[i].metadata.id = "tool-" \o tcall.id
                        /\ conversation'[i].content
                               = <<"Searching for '">>
                                 \o SplitFirst(tcall.requesturl, "?q=")
                                 \o <<"'...">>]_vars

\* ========================================================== run failure
\* A run event that reports the run as failed.
IsRunFailed(ev) == ev.event_type = "thread.run" /\ ev.status = "failed"

\* C12: when the stream of a turn reported the run as failed, the turn's
\* conversation, as last shown, holds a message that carries the run's last
\* error.
C12_RunFailureSurfaced ==
    (/\ pc = "done"
     /\ \E k \in 1..Len(consumed) : IsRunFailed(consumed[k]))
    => \E k \in 1..Len(consumed) :
           /\ IsRunFailed(consumed[k])
           /\ \E i \in (Len(history) + 1)..Len(conversation) :
                  /\ conversation[i].role = "assistant"
                  /\ \E j \in 1..Len(conversation[i].content) :
                         conversation[i].content[j] = consumed[k].last_error

\* ===================================================== stream exceptions
\* A step in which the current call's except clause catches an exception.
IsRaise == exception = "None" /\ exception' # "None"

\* C13: an exception raised while the stream is iterated (by the stream
\* itself, by the callback or by the loop body) leaves the call as an error
\* of the call, the stream released, and the conversation of the snapshots
\* yielded before it, like the snapshot shown, as they were.
C13_StreamExceptionPropagated ==
    [][IsRaise
       => (/\ pc = "streaming"
           /\ pc' = "raised"
           /\ ~stream_open'
           /\ conversation' = conversation
           /\ chatbot' = chatbot)]_vars

\* The stream failed after a text delta was shown: the call ended in the
\* error and the snapshot with the delta's message is still the one shown.
C13_Witness ==
    /\ pc = "raised"
    /\ exception = "StreamError"
    /\ Len(consumed) = 1
    /\ IsTextDelta(consumed[1])
    /\ chatbot = conversation
    /\ Len(conversation) = Len(history) + 2
    /\ Last(conversation).content = Fragment(consumed[1])

\* ============================================================ cancellation
\* C14: when the consumer stops taking snapshots while the streaming session
\* is open, the stream is released in the end, and neither the stop nor the
\* release takes anything back from the conversation built and shown so far.
C14_CancelReleasesStream ==
    /\ (pc = "abandoned" /\ stream_open) ~> ~stream_open
    /\ [][(pc' = "abandoned" \/ pc = "abandoned")
          => (conversation' = conversation /\ chatbot' = chatbot)]_vars

\* The consumer stopped after a text delta of an open stream was shown: the
\* generator is finalised, the stream released and the partial assistant
\* message still shown.
C14_Witness ==
    /\ pc = "closed"
    /\ ~stream_open
    /\ stream_thread # <<>>
    /\ Len(consumed) >= 1
    /\ IsTextDelta(Last(consumed))
    /\ chatbot = conversation
    /\ Len(conversation) = Len(history) + 2
    /\ Last(conversation).role = "assistant"

\* ======================================================== end of stream
\* C15: whatever items a stream gave, with a "completed" event among them or
\* not, a call leaves its stream loop only by ending normally, with the
\* conversation as accumulated up to the last item; the one exception is a
\* stream that itself raised.
C15_FiniteStreamEndsNormally ==
    [][(/\ pc = "streaming"
        /\ pc' # "streaming"
        /\ exception' # "StreamError")
       => (/\ pc' = "done"
           /\ exception' = "None"
           /\ ~stream_open'
           /\ conversation' = conversation)]_vars

\* ================================================================ reset
\* A step that is a click on the clear button.
IsReset == thread' # thread

\* The running call was submitted after a reset: a reset has happened, and
\* the snapshot the call showed first has not been cleared since.
SubmittedAfterReset == thread # FirstThread /\ chatbot # <<>>

\* C16: a reset empties the conversation shown, and a submission made after
\* it creates its user message on the thread that reset opened and opens its
\* stream against that thread.
C16_ResetRebindsThread ==
    /\ [][IsReset => chatbot' = <<>>]_vars
    /\ [][(pc = "yielded" /\ pc' = "created" /\ SubmittedAfterReset)
          => message_thread' = <<thread>>]_vars
    /\ [][(pc = "created" /\ pc' = "streaming" /\ SubmittedAfterReset)
          => stream_thread' = <<thread>>]_vars

\* ============================================================ two sessions
\* C17: the first submission of a session, made after a submission of the
\* other session, is not suppressed, and the gate state it is compared with
\* is its own session's, which no submission of that session has written
\* yet.
C17_GatePerSession ==
    [][(/\ IsSubmit
        /\ turn = 1
        /\ caller' # caller)
       => (/\ pc' # "suppressed"
           /\ last_message = "None"
           /\ last_message_timestamp = 0)]_vars

\* ======================================================= the gate's state
\* C18: a submission that is allowed leaves the gate holding the text just
\* submitted and the clock reading of that submission.
C18_GateStateAfterAllowed ==
    [][(IsSubmit /\ pc' = "yielded")
       => (/\ last_message' = user_message'
           /\ last_message_timestamp' = now')]_vars

\* C19: a call with the text of the previous, allowed, call, made less than
\* Window seconds after it, is suppressed and gives the interface the pair
\* of the prior history, unchanged, and the empty input text.
C19_SuppressedDeliversHistory ==
    [][(/\ IsSubmit
        /\ turn >= 1
        /\ pc # "suppressed"
        /\ user_message' = user_message
        /\ now' - last_message_timestamp < Window)
       => (/\ pc' = "suppressed"
           /\ history' = chatbot
           /\ chatbot' = history'
           /\ input_box' = "")]_vars

\* ================================================ the order of a submission
\* The user message of the current call.
UserMessage == ChatMessage("user", <<user_message>>, NoMeta)

\* C20: an allowed submission appends the user message to the prior history
\* and shows that snapshot with the input emptied; the thread message is
\* created next, once, and only then is the stream opened, once; no item is
\* handled before the user message is in the conversation and on the thread.
C20_SubmissionStepsInOrder ==
    /\ [](pc = "yielded"
          => (/\ conversation = Append(ConvertHistory(history), UserMessage)
              /\ chatbot = conversation
              /\ input_box = ""
              /\ Len(thread_messages) = turn - 1
              /\ ~stream_open
              /\ consumed = <<>>))
    /\ [](pc = "created"
          => (/\ conversation = Append(ConvertHistory(history), UserMessage)
              /\ Len(thread_messages) = turn
              /\ Last(thread_messages).content = user_message
              /\ ~stream_open
              /\ consumed = <<>>))
    /\ [](pc = "streaming" => (stream_open /\ Len(thread_messages) = turn))
    /\ [](consumed # <<>>
          => (/\ Len(conversation) >= Len(history) + 1
              /\ conversation[Len(history) + 1] = UserMessage
              /\ Len(thread_messages) = turn))
    /\ [][(/\ pc' = "yielded" => IsSubmit
           /\ thread_messages' # thread_messages
                  => (/\ pc = "yielded" /\ pc' = "created"
                      /\ thread_messages'
                             = Append(thread_messages,
                                      [role |-> "user", content |-> user_message]))
           /\ pc' = "created" => pc = "yielded"
           /\ (stream_open' /\ ~stream_open) => (pc = "created" /\ pc' = "streaming")
           /\ IsDelivery => (pc = "streaming" /\ stream_open))]_vars

\* A second allowed submission whose stream has given an item: its user
\* message follows the prior history, its thread message is the second on
\* the thread, and its stream is open.
C20_Witness ==
    /\ pc = "streaming"
    /\ turn = 2
    /\ history # <<>>
    /\ Len(consumed) >= 1
    /\ stream_open
    /\ Len(thread_messages) = 2
    /\ thread_messages[2].content = user_message
    /\ conversation[Len(history) + 1] = UserMessage
    /\ Len(conversation) > Len(history) + 1

\* ==================================================== the delta append rule
\* The last element of conv is an assistant message that is not a bubble.
EndsWithPlainAssistant(conv) ==
    /\ conv # <<>>
    /\ Last(conv).role = "assistant"
    /\ Last(conv).metadata = NoMeta

\* C21: a text delta is appended to the last element of the conversation
\* when that is an assistant message without bubble metadata; otherwise a
\* new assistant message seeded with the delta's text is appended. Every
\* message before the last one stays as it was, so text that arrives after
\* a bubble does not reach the assistant message before the bubble.
C21_DeltaAppendRule ==
    [][(IsDelivery /\ IsTextDelta(Delivered))
       => IF EndsWithPlainAssistant(conversation)
          THEN /\ Len(conversation') = Len(conversation)
               /\ \A i \in 1..(Len(conversation) - 1) :
                      conversation'[i] = conversation[i]
               /\ Last(conversation')
                      = [Last(conversation) EXCEPT
                            !.content = Last(conversation).content \o Fragment(Delivered)]
          ELSE conversation'
                   = Append(conversation,
                            ChatMessage("assistant", Fragment(Delivered), NoMeta))]_vars

\* An assistant message, then a bubble, then a text delta: the delta's text
\* is a third message of the turn and the first one holds its own delta only.
C21_Witness ==
    /\ pc = "streaming"
    /\ Len(consumed) = 3
    /\ IsTextDelta(consumed[1])
    /\ consumed[2].event_type = "thread.run.step.delta"
    /\ IsTextDelta(consumed[3])
    /\ Len(TurnMessages) = 3
    /\ TurnMessages[1].content = Fragment(consumed[1])
    /\ IsBubble(TurnMessages[2])
    /\ TurnMessages[3] = ChatMessage("assistant", Fragment(consumed[3]), NoMeta)

\* ================================================== tool-call completion
\* msg with its status done when it was pending, and msg itself otherwise.
Flipped(msg) ==
    IF msg.metadata.status = "pending"
    THEN [msg EXCEPT !.metadata.status = "done"]
    ELSE msg

FlipPending(conv) == [i \in 1..Len(conv) |-> Flipped(conv[i])]

\* C22, as stated: a completed tool_calls run_step item turns every pending
\* message done and changes nothing else, the number of messages included.
C22_CompletedStepOnlyFlips ==
    [][(IsDelivery /\ IsToolStepCompleted(Delivered))
       => conversation' = FlipPending(conversation)]_vars

\* C22, amended: a completed tool_calls run_step item leaves the messages
\* already in the conversation in their number, order, role, content, title
\* and id, turning done those that were pending and keeping the status of the
\* others; the only messages it adds, after them, are the summary bubbles of
\* the step's fetch calls whose output parses.
C22_CompletedStepFlipsAndSummarises ==
    [][(IsDelivery /\ IsToolStepCompleted(Delivered))
       => (/\ Len(conversation') >= Len(conversation)
           /\ SubSeq(conversation', 1, Len(conversation)) = FlipPending(conversation)
           /\ \A i \in (Len(conversation) + 1)..Len(conversation') :
                  \E k \in 1..Len(Delivered.tool_calls) :
                      /\ IsParseableFetch(Delivered.tool_calls[k])
                      /\ conversation'[i].metadata.id
                             = "tool-" \o Delivered.tool_calls[k].id)]_vars

\* A completed step arrived after a bubble: that bubble is as the step delta
\* created it, and the step's summary bubble follows it.
C22_Witness ==
    /\ pc = "streaming"
    /\ Len(consumed) = 2
    /\ consumed[1].event_type = "thread.run.step.delta"
    /\ IsToolStepCompleted(consumed[2])
    /\ Len(TurnMessages) = 2
    /\ TurnMessages[1].metadata.id = "tool-" \o consumed[1].tool_calls[1].id
    /\ TurnMessages[1].metadata.status = ""
    /\ TurnMessages[2].metadata.id = "tool-f2"

\* ================================================== status observations
\* The messages of earlier are those of later, in their place, up to status.
SameUpToStatus(earlier, later) ==
    \A i \in 1..Len(earlier) :
        /\ later[i].role = earlier[i].role
        /\ later[i].content = earlier[i].content
        /\ later[i].metadata.title = earlier[i].metadata.title
        /\ later[i].metadata.id = earlier[i].metadata.id

\* The fetch calls of a step whose output parses.
ParseableFetches(ev) ==
    {k \in 1..Len(ev.tool_calls) : IsParseableFetch(ev.tool_calls[k])}

\* C23, as stated: an item that reaches on_thread_run or on_run_step leaves
\* the conversation with the messages it had, no more and no fewer.
C23_ObservationsNeverMutate ==
    [][(IsDelivery /\ Delivered.event_type \in {"thread.run", "run_step"})
       => (/\ Len(conversation') = Len(conversation)
           /\ SameUpToStatus(conversation, conversation'))]_vars

\* C23, amended: on_thread_run leaves the conversation as it is; on_run_step
\* leaves the messages already there as they are and adds a message only
\* for a completed step, one per fetch call whose output parses; for a step
\* that is not completed, or has no such call, it adds nothing.
C23_ObservationsOnlyAddSummaries ==
    [][(IsDelivery /\ Delivered.event_type \in {"thread.run", "run_step"})
       => (/\ Delivered.event_type = "thread.run" => conversation' = conversation
           /\ Len(conversation') >= Len(conversation)
           /\ SameUpToStatus(conversation, conversation')
           /\ Len(conversation') - Len(conversation)
                  = IF Delivered.event_type = "run_step" /\ Delivered.status = "completed"
                    THEN Cardinality(ParseableFetches(Delivered))
                    ELSE 0)]_vars

\* A failed run and a step in progress were observed and added nothing; the
\* completed step after them added the summary of its one parseable call.
C23_Witness ==
    /\ pc = "streaming"
    /\ Len(consumed) = 3
    /\ IsRunFailed(consumed[1])
    /\ consumed[2].event_type = "run_step"
    /\ consumed[2].status = "in_progress"
    /\ IsToolStepCompleted(consumed[3])
    /\ Cardinality(ParseableFetches(consumed[3])) = 1
    /\ Len(TurnMessages) = 1
    /\ IsBubble(TurnMessages[1])

\* ================================================ custom-function calls
\* The one-line summary of a fetch call whose output parsed.
Summary(tcall) ==
    LET noun == IF tcall.fn_name = "fetch_accounts" THEN "account" ELSE "contact"
    IN IF tcall.output.has_error
       THEN <<"Error fetching " \o noun \o "s: ", tcall.output.error>>
       ELSE <<"Found ",
              IF tcall.output.has_total THEN tcall.output.totalSize ELSE "0",
              " " \o noun \o "(s).">>

\* C24: a completed step adds, for each of its fetch_accounts and
\* fetch_contacts calls whose output parses, exactly one bubble with the id
\* of that call, whose content is the error summary when the payload has an
\* error field and the count summary otherwise, the count being totalSize,
\* or 0 when the payload has none.
C24_FetchSummaryBubble ==
    [][(/\ IsDelivery
        /\ Delivered.event_type = "run_step"
        /\ Delivered.status = "completed")
       => LET added == SubSeq(conversation', Len(conversation) + 1, Len(conversation'))
          IN \A k \in ParseableFetches(Delivered) :
                 LET tcall == Delivered.tool_calls[k]
                 IN /\ Cardinality(BubblesOf(added, tcall.id)) = 1
                    /\ \A i \in BubblesOf(added, tcall.id) :
                           /\ added[i].role = "assistant"
                           /\ added[i].content = Summary(tcall)]_vars

\* A step with an error payload for fetch_accounts and a payload without
\* totalSize for fetch_contacts has added its two summaries.
C24_Witness ==
    /\ pc = "streaming"
    /\ Len(consumed) = 1
    /\ consumed[1].id = "s7"
    /\ Len(TurnMessages) = 2
    /\ TurnMessages[1].metadata.id = "tool-f4"
    /\ TurnMessages[1].content = <<"Error fetching accounts: ", "INVALID_SESSION_ID">>
    /\ TurnMessages[2].metadata.id = "tool-f5"
    /\ TurnMessages[2].content = <<"Found ", "0", " contact(s).">>

\* ============================================================= citations
IsUrlCitation(annotation) == annotation.type = "url_citation"

\* The url-citation annotations of the chunks, in chunk and annotation order.
RECURSIVE UrlAnnotations(_)
UrlAnnotations(chunks) ==
    IF chunks = <<>> THEN <<>>
    ELSE SelectSeq(Head(chunks).annotations, IsUrlCitation)
         \o UrlAnnotations(Tail(chunks))

\* "<annotation text> [<title>](<url>)"
Formatted(annotation) ==
    <<annotation.text, " [", annotation.title, "](", annotation.url, ")">>

\* The formatted annotations with a newline between one and the next.
RECURSIVE CitationBlock(_)
CitationBlock(annotations) ==
    IF annotations = <<>> THEN <<>>
    ELSE IF Len(annotations) = 1 THEN Formatted(Head(annotations))
    ELSE Formatted(Head(annotations)) \o <<"\n">> \o CitationBlock(Tail(annotations))

\* C25: the step that handles a text delta leaves the last message holding
\* what it held (nothing, when the message is new), then the delta's text,
\* then, when the delta has url-citation annotations, a newline and the
\* block of those annotations, each formatted "<text> [<title>](<url>)", in
\* annotation order with newlines between them; annotations of another kind
\* add nothing.
C25_CitationBlock ==
    [][(IsDelivery /\ IsTextDelta(Delivered))
       => LET before == IF EndsWithPlainAssistant(conversation)
                        THEN Last(conversation).content ELSE <<>>
              cited == UrlAnnotations(Delivered.chunks)
          IN Last(conversation').content
                 = before
                   \o ChunkValues(Delivered.chunks)
                   \o (IF cited = <<>> THEN <<>> ELSE <<"\n">> \o CitationBlock(cited))]_vars

\* Two deltas made one message: the text and the two url citations of the
\* first, then the texts of the second's two chunks and their two citations.
C25_Witness ==
    /\ pc = "streaming"
    /\ Len(consumed) = 2
    /\ Len(TurnMessages) = 1
    /\ TurnMessages[1].content
           = << "See", "\n",
                "[1]", " [", "A", "](", "http://a", ")", "\n",
                "[3]", " [", "B", "](", "http://b", ")",
                " one", " two", "\n",
                "[4]", " [", "C", "](", "http://c", ")", "\n",
                "[5]", " [", "D", "](", "http://d", ")" >>

\* ============================================== items without a change
\* An item that carries no reducible change.
IsNoOp(ev) ==
    \/ ev.event_type \notin {"thread.message.delta", "run_step", "thread.run.step.delta"}
    \/ /\ ev.event_type = "run_step"
       /\ ~(ev.step_type = "tool_calls" /\ ev.status = "completed")
    \/ /\ ev.event_type = "thread.run.step.delta"
       /\ ev.step_type # "tool_calls"

\* C26: an item of an event type the loop does not know, a run_step item
\* that is not a completed tool_calls step, or a step delta whose kind is
\* not tool_calls leaves the conversation and the snapshot shown as they
\* are, and the generator goes on to the next item without a yield.
C26_NoOpItemsEmitNothing ==
    [][(IsDelivery /\ IsNoOp(Delivered))
       => (/\ conversation' = conversation
           /\ chatbot' = chatbot
           /\ pc' = "streaming"
           /\ ~AtYield')]_vars

\* After a bubble was shown, a step still in progress arrived: the turn
\* still has that one bubble and the generator is not at a yield.
C26_Witness ==
    /\ pc = "streaming"
    /\ Len(consumed) = 2
    /\ consumed[1].event_type = "thread.run.step.delta"
    /\ consumed[1].step_type = "tool_calls"
    /\ consumed[2].event_type = "run_step"
    /\ consumed[2].status = "in_progress"
    /\ Len(TurnMessages) = 1
    /\ chatbot = conversation
    /\ ~AtYield

====
